---- MODULE Spec2Model ----
(***************************************************************************)
(* Model of src/AW/repos.py: the Fermat factoring class Factoring          *)
(* (_check_sol, calc_near, calc_brute_force, calc_near6, _calc_factors),   *)
(* the static solve_quadratic and the module-level decrypt.                *)
(*                                                                         *)
(* gmpy2 numbers are modelled exactly: an mpz is an integer, an mpfr that  *)
(* holds sqrt(D) is the pair (isqrt(D), is the fractional part below 1/2), *)
(* which is all that mpz(), ceil() and the comparisons of the code read.   *)
(* The working precision is taken to be large enough (main() sets it to    *)
(* three times the digit count of the modulus).                            *)
(***************************************************************************)
EXTENDS Integers, Sequences, FiniteSets, TLC

\* ---------------------------------------------------------------- bounds
\* moduli of a Factoring session are drawn from 1..MaxN
MaxN == 120
\* arguments of a direct _check_sol call are drawn from 0..MaxArg
MaxArg == 7
\* stands for the 2 ** 20 of xrange(1, 2 ** 20) (repos.py line 50), scaled
\* down so that the end of the search is reached
SearchStop == 8
\* calls made on one Factoring object
MaxCalls == 3
\* solve_quadratic: leading coefficient in -MaxCoef..MaxCoef, roots in
\* -MaxRoot..MaxRoot
MaxCoef == 2
MaxRoot == 3
\* decrypt: messages 0..MaxMsg and 0x200, 0x2000, 0x20000 + (0..MaxMsg)
MaxMsg == 260

\* ------------------------------------------------------- program constants
\* e = mpz(65537)
PublicExponent == 65537

VARIABLES
    scn,    \* which entry point of the module this behaviour exercises
    n,      \* Factoring.n (self.n); the modulus handed to decrypt's Factoring
    round,  \* gmpy2.get_context().round, which mpz(<mpfr>) obeys; never set here
    op,     \* the call that ran last ("none" before the first)
    arg,    \* its arguments
    out,    \* its outcome: the value returned or the exception raised
    n0,     \* history: the n given to Factoring.__init__
    log     \* history: the calls made on the Factoring object, with outcomes

vars == <<scn, n, round, op, arg, out, n0, log>>

\* how mpz() converts an mpfr that is not an integer: by the rounding mode of
\* the gmpy2 context, RoundToNearest unless the caller's context says
\* otherwise; RoundToZero is also the truncation that gmpy2's documentation
\* of mpz() describes. The mode is fixed for a run.
RoundModes == {"RoundToNearest", "RoundToZero"}

\* ------------------------------------------------------------- arithmetic

\* gmpy2.is_prime on an mpz (exact on the small values drawn here)
is_prime(p) == p > 1 /\ \A d \in 2..(p - 1) : d * d > p \/ p % d # 0

\* gmpy2.isqrt(m), m >= 0: the integer part of the square root
isqrt(m) == CHOOSE r \in 0..m : r * r <= m /\ (r + 1) * (r + 1) > m

\* ceil(sqrt(m)) for an mpz m >= 0
ceil_sqrt(m) == LET r == isqrt(m) IN IF r * r = m THEN r ELSE r + 1

\* mpz(a - sqrt(D)) and mpz(a + sqrt(D)) for integers a > sqrt(D) >= 0:
\* exact when D is a square; otherwise the conversion rounds the mpfr as
\* the context says (to nearest: down iff the fractional part of sqrt(D) is
\* below 1/2, i.e. 4 D < (2 f + 1)^2; to zero: truncation).
mpz_of_diff(a, D, rnd) ==
    LET f == isqrt(D)
    IN  IF f * f = D THEN a - f
        ELSE IF rnd = "RoundToNearest" /\ 4 * D < (2 * f + 1) * (2 * f + 1)
             THEN a - f
             ELSE a - f - 1

mpz_of_sum(a, D, rnd) ==
    LET f == isqrt(D)
    IN  IF f * f = D THEN a + f
        ELSE IF rnd = "RoundToNearest" /\ 4 * D >= (2 * f + 1) * (2 * f + 1)
             THEN a + f + 1
             ELSE a + f

\* ------------------------------------------------------ Factoring (pure)

\* _calc_factors with the smaller and the larger value exchanged
calc_factors_swapped(nn, a, rnd) ==
    LET D == a * a - nn
    IN  <<mpz_of_sum(a, D, rnd), mpz_of_diff(a, D, rnd)>>

\* Factoring._calc_factors(a): x = sqrt(a*a - n); (mpz(a - x), mpz(a + x))
calc_factors(nn, a, rnd) ==
    LET D == a * a - nn
    IN  <<mpz_of_diff(a, D, rnd), mpz_of_sum(a, D, rnd)>>

\* Factoring._check_sol(p, q): sub(n, mul(p, q)) < 0.5 for two primes
check_sol_result(nn, p, q) ==
    IF is_prime(p) /\ is_prime(q)
    THEN 2 * (nn - p * q) < 1
    ELSE FALSE

\* the outcome of a call: kind "pair" is a returned tuple (p, q); a is the
\* midpoint (for calc_near6: A) the tuple came from, tried the number of
\* candidates computed
Outcome(kind, p, q, a, tried) ==
    [kind |-> kind, p |-> p, q |-> q, a |-> a, tried |-> tried]

\* calc_near that searches on when its first candidate fails
RECURSIVE near_retry(_, _, _, _)
near_retry(nn, a, k, rnd) ==
    LET pq == calc_factors(nn, a + k, rnd)
    IN  IF check_sol_result(nn, pq[1], pq[2])
        THEN Outcome("pair", pq[1], pq[2], a + k, k + 1)
        ELSE IF k + 1 >= SearchStop
             THEN Outcome("AssertionError", 0, 0, a + k, k + 1)
             ELSE near_retry(nn, a, k + 1, rnd)

calc_near_retrying(nn, rnd) == near_retry(nn, ceil_sqrt(nn), 0, rnd)

\* Factoring.calc_near()
calc_near_result(nn, rnd) ==
    LET a  == ceil_sqrt(nn)
        pq == calc_factors(nn, a, rnd)
    IN  IF check_sol_result(nn, pq[1], pq[2])
        THEN Outcome("pair", pq[1], pq[2], a, 1)
        ELSE Outcome("AssertionError", 0, 0, a, 1)

\* the loop of calc_brute_force from counter k on: xrange(1, 2 ** 20) ends
\* before its stop value, and the else branch of the for raises ValueError
RECURSIVE brute_force_from(_, _, _, _)
brute_force_from(nn, a, k, rnd) ==
    IF k >= SearchStop
    THEN Outcome("ValueError", 0, 0, a + k - 1, k - 1)
    ELSE LET pq == calc_factors(nn, a + k, rnd)
         IN  IF check_sol_result(nn, pq[1], pq[2])
             THEN Outcome("pair", pq[1], pq[2], a + k, k)
             ELSE brute_force_from(nn, a, k + 1, rnd)

\* Factoring.calc_brute_force()
calc_brute_force_result(nn, rnd) ==
    brute_force_from(nn, ceil_sqrt(nn), 1, rnd)

\* Factoring.calc_near6(): div on mpz operands is floor division
calc_near6_result(nn) ==
    LET A  == isqrt(nn * 24) + 1
        D  == A * A - 24 * nn
        E  == isqrt(D)
        p1 == (A - E) \div 6
        q1 == (A + E) \div 4
        p2 == (A + E) \div 6
        q2 == (A - E) \div 4
    IN  IF E * E - D # 0 THEN Outcome("AssertionError", 0, 0, A, 0)
        ELSE IF check_sol_result(nn, p1, q1) THEN Outcome("pair", p1, q1, A, 1)
        ELSE IF check_sol_result(nn, p2, q2) THEN Outcome("pair", p2, q2, A, 2)
        ELSE Outcome("pair", 0, 0, A, 2)

\* --------------------------------------------------------- solve_quadratic

\* the real number (m + sgn * sqrt(disc)) / den, kept symbolically: an mpfr
\* of sufficient precision; disc < 0 makes it NaN, den = 0 makes it
\* infinite or NaN
Real(m, sgn, disc, den) == [m |-> m, sgn |-> sgn, disc |-> disc, den |-> den]

\* solve_quadratic with b in place of -b
solve_quadratic_unnegated(a, b, c) ==
    LET disc == b * b - 4 * (a * c)
    IN  <<Real(b, -1, disc, 2 * a), Real(b, 1, disc, 2 * a)>>

\* Factoring.solve_quadratic(a, b, c):
\*   bb = sqrt(b*b - 4*a*c); x1 = (-b - bb) / (2*a); x2 = (-b + bb) / (2*a)
solve_quadratic_result(a, b, c) ==
    LET disc == b * b - 4 * (a * c)
    IN  <<Real(-b, -1, disc, 2 * a), Real(-b, 1, disc, 2 * a)>>

\* ------------------------------------------------------------------ decrypt

\* gmpy2.invert(e, m) by the extended Euclidean algorithm:
\* egcd(a, b) = <<g, x, y>> with a x + b y = g
RECURSIVE egcd(_, _)
egcd(a, b) ==
    IF b = 0 THEN <<a, 1, 0>>
    ELSE LET r == egcd(b, a % b)
         IN  <<r[1], r[3], r[2] - (a \div b) * r[3]>>

invertible(e, m) == egcd(e % m, m)[1] = 1

invert(e, m) == egcd(e % m, m)[2] % m

\* x * y mod m for 0 <= x, y < m, by doubling
RECURSIVE mulmod(_, _, _)
mulmod(x, y, m) ==
    IF x = 0 \/ y = 0 THEN 0
    ELSE LET h == (2 * mulmod(x, y \div 2, m)) % m
         IN  IF y % 2 = 1 THEN (h + x) % m ELSE h

\* gmpy2.powmod(b, ex, m), ex >= 0
RECURSIVE powmod(_, _, _)
powmod(b, ex, m) ==
    IF ex = 0 THEN 1 % m
    ELSE LET h  == powmod(b, ex \div 2, m)
             sq == mulmod(h, h, m)
         IN  IF ex % 2 = 1 THEN mulmod(sq, b % m, m) ELSE sq

HexChars ==
    <<"0", "1", "2", "3", "4", "5", "6", "7",
      "8", "9", "a", "b", "c", "d", "e", "f">>

hex_value(ch) == (CHOOSE i \in 1..16 : HexChars[i] = ch) - 1

RECURSIVE hex_digits(_)
hex_digits(m) ==
    IF m < 16 THEN <<HexChars[m + 1]>>
    ELSE Append(hex_digits(m \div 16), HexChars[(m % 16) + 1])

\* hex(dec) of an mpz dec >= 0: "0x" and the digits, most significant first
hex(m) == <<"0", "x">> \o hex_digits(m)

\* dec_hex.startswith('0x2')
startswith_0x2(s) == Len(s) >= 3 /\ s[3] = "2"

\* the positions (from 1) where '00' occurs in s
zero_pairs(s) == {i \in 1..(Len(s) - 1) : s[i] = "0" /\ s[i + 1] = "0"}

\* msg_hex.decode('hex') of an even-length string of hex digits
hex_decode(s) ==
    [j \in 1..(Len(s) \div 2) |->
        16 * hex_value(s[2 * j - 1]) + hex_value(s[2 * j])]

Decrypted(kind, dec, msg) == [kind |-> kind, dec |-> dec, msg |-> msg]

\* the tail of decrypt(), from dec_hex = hex(dec) on: str.index raises
\* ValueError when '00' does not occur, str.decode('hex') raises TypeError
\* on an odd number of digits ("None": 'Decryption failed' is printed and
\* the function returns None)
decrypt_tail(dec) ==
    LET dec_hex == hex(dec)
    IN  IF startswith_0x2(dec_hex)
        THEN IF zero_pairs(dec_hex) = {}
             THEN Decrypted("ValueError", dec, <<>>)
             ELSE LET i       == CHOOSE k \in zero_pairs(dec_hex) :
                                     \A j \in zero_pairs(dec_hex) : k <= j
                      msg_hex == SubSeq(dec_hex, i + 2, Len(dec_hex))
                  IN  IF Len(msg_hex) % 2 = 1
                      THEN Decrypted("TypeError", dec, <<>>)
                      ELSE Decrypted("bytes", dec, hex_decode(msg_hex))
        ELSE Decrypted("None", dec, <<>>)

\* decrypt() for a modulus nn and a ciphertext: p, q = Factoring(n).calc_near();
\* fi_n = (p-1)(q-1); d = invert(e, fi_n); dec = powmod(CIPHER, d, n)
decrypt_result(nn, cipher, rnd) ==
    LET f == calc_near_result(nn, rnd)
    IN  IF f.kind # "pair" THEN Decrypted("AssertionError", -1, <<>>)
        ELSE LET fi_n == (f.p - 1) * (f.q - 1)
             IN  IF ~invertible(PublicExponent, fi_n)
                 THEN Decrypted("ZeroDivisionError", -1, <<>>)
                 ELSE decrypt_tail(
                          powmod(cipher, invert(PublicExponent, fi_n), nn))

\* ------------------------------------------------------------ state machine

NoArg == [none |-> TRUE]
NoOut == [kind |-> "none"]

\* the moduli decrypt is run on (N1 in the source): 367 * 373, which
\* calc_near factors, and 10, which it does not
DecModuli == {10, 136891}

\* the messages whose encryptions stand for CIPHER: small ones, and three,
\* four and five hex digits from 0x200, 0x2000 and 0x20000 on
MsgInputs ==
    (0..MaxMsg) \cup {512 + i : i \in 0..MaxMsg}
                \cup {8192 + i : i \in 0..MaxMsg}
                \cup {131072 + i : i \in 0..MaxMsg}

\* factor = Factoring(mpz(N)): a session on which the strategies are called
InitFactoring ==
    /\ scn = "Factoring"
    /\ n \in 1..MaxN
    /\ round \in RoundModes
    /\ arg = NoArg

\* a Factoring object and the pair handed to its _check_sol
InitCheckSol ==
    /\ scn = "_check_sol"
    /\ n \in 1..MaxN
    /\ round = "RoundToNearest"
    /\ arg \in [p : 0..MaxArg, q : 0..MaxArg]

\* the coefficients handed to solve_quadratic
InitQuadratic ==
    /\ scn = "solve_quadratic"
    /\ n = 1
    /\ round = "RoundToNearest"
    /\ arg \in [a : (-MaxCoef)..MaxCoef,
                b : (-(2 * MaxCoef * MaxRoot))..(2 * MaxCoef * MaxRoot),
                c : (-(MaxCoef * MaxRoot * MaxRoot))..(MaxCoef * MaxRoot * MaxRoot)]

\* the modulus and the ciphertext decrypt works on: CIPHER is the encryption
\* of a message under (N, e)
InitDecrypt ==
    /\ scn = "decrypt"
    /\ n \in DecModuli
    /\ round \in RoundModes
    /\ \E m \in MsgInputs :
          /\ m < n
          /\ arg = [cipher |-> powmod(m, PublicExponent, n)]

Init ==
    /\ \/ InitFactoring
       \/ InitCheckSol
       \/ InitQuadratic
       \/ InitDecrypt
    /\ op = "none"
    /\ out = NoOut
    /\ n0 = n
    /\ log = <<>>

Called(name, result) == [op |-> name, out |-> result]

\* factor._check_sol(p, q)
check_sol ==
    /\ scn = "_check_sol"
    /\ op = "none"
    /\ op' = "_check_sol"
    /\ out' = [kind |-> "bool", val |-> check_sol_result(n, arg.p, arg.q)]
    /\ UNCHANGED <<scn, n, round, arg, n0, log>>

\* factor.calc_near()
calc_near ==
    /\ scn = "Factoring"
    /\ Len(log) < MaxCalls
    /\ op' = "calc_near"
    /\ out' = calc_near_result(n, round)
    /\ log' = Append(log, Called("calc_near", out'))
    /\ UNCHANGED <<scn, n, round, arg, n0>>

\* calc_brute_force leaving its loop counter in self.n
calc_brute_force_leaking ==
    /\ scn = "Factoring"
    /\ Len(log) < MaxCalls
    /\ op' = "calc_brute_force"
    /\ out' = calc_brute_force_result(n, round)
    /\ log' = Append(log, Called("calc_brute_force", out'))
    /\ n' = out'.tried + 1
    /\ UNCHANGED <<scn, round, arg, n0>>

\* factor.calc_brute_force(): the loop variable n is a local, not self.n
calc_brute_force ==
    /\ scn = "Factoring"
    /\ Len(log) < MaxCalls
    /\ op' = "calc_brute_force"
    /\ out' = calc_brute_force_result(n, round)
    /\ log' = Append(log, Called("calc_brute_force", out'))
    /\ UNCHANGED <<scn, n, round, arg, n0>>

\* factor.calc_near6()
calc_near6 ==
    /\ scn = "Factoring"
    /\ Len(log) < MaxCalls
    /\ op' = "calc_near6"
    /\ out' = calc_near6_result(n)
    /\ log' = Append(log, Called("calc_near6", out'))
    /\ UNCHANGED <<scn, n, round, arg, n0>>

\* Factoring.solve_quadratic(a, b, c)
solve_quadratic ==
    /\ scn = "solve_quadratic"
    /\ op = "none"
    /\ op' = "solve_quadratic"
    /\ LET x == solve_quadratic_result(arg.a, arg.b, arg.c)
       IN  out' = [kind |-> "roots", x1 |-> x[1], x2 |-> x[2]]
    /\ UNCHANGED <<scn, n, round, arg, n0, log>>

\* decrypt()
decrypt ==
    /\ scn = "decrypt"
    /\ op = "none"
    /\ op' = "decrypt"
    /\ out' = decrypt_result(n, arg.cipher, round)
    /\ UNCHANGED <<scn, n, round, arg, n0, log>>

Next ==
    \/ check_sol
    \/ calc_near
    \/ calc_brute_force
    \/ calc_near6
    \/ solve_quadratic
    \/ decrypt

Spec == Init /\ [][Next]_vars

\* ------------------------------------------------------------- properties

\* the least a with a * a >= m: the ceiling of sqrt(m)
LeastRootAbove(m) ==
    CHOOSE a \in 0..m : a * a >= m /\ (a = 0 \/ (a - 1) * (a - 1) < m)

\* the real x is the integer r
IsValue(x, r) ==
    /\ x.disc >= 0
    /\ x.den # 0
    /\ LET s == isqrt(x.disc)
       IN  s * s = x.disc /\ x.m + x.sgn * s = r * x.den

\* the outcome of a call made first on a fresh Factoring(nn)
FreshOutcome(name, nn, rnd) ==
    CASE name = "calc_near"        -> calc_near_result(nn, rnd)
      [] name = "calc_brute_force" -> calc_brute_force_result(nn, rnd)
      [] name = "calc_near6"       -> calc_near6_result(nn)

\* the hex digits d of a decrypted integer lack the padding marker: they do
\* not begin with 2, or no "00" follows that nibble
MarkerAbsent(d) ==
    \/ d[1] # "2"
    \/ ~ \E i \in 2..(Len(d) - 1) : d[i] = "0" /\ d[i + 1] = "0"

\* C1: _check_sol(p, q) is true iff p is prime, q is prime and p * q = N
\* exactly; in particular it is false for primes whose product exceeds N.
C1_CheckSolIffExactProduct ==
    op = "_check_sol" =>
        (out.val <=> (is_prime(arg.p) /\ is_prime(arg.q) /\ arg.p * arg.q = n))

\* C2: for N = p * q, p <= q prime, with ceil(sqrt(N)) = (p + q) / 2,
\* calc_near returns exactly (p, q), the smaller factor first.
C2_CalcNearReturnsFactors ==
    (scn = "Factoring" /\ op = "calc_near") =>
        \A p \in 2..n :
            (/\ n % p = 0
             /\ p <= n \div p
             /\ is_prime(p)
             /\ is_prime(n \div p)
             /\ 2 * LeastRootAbove(n) = p + (n \div p))
            => out = Outcome("pair", p, n \div p, LeastRootAbove(n), 1)

\* C2 at N = 77: midpoint 9, x = 2, result (7, 11)
C2_Witness ==
    /\ scn = "Factoring"
    /\ op = "calc_near"
    /\ n = 77
    /\ out = Outcome("pair", 7, 11, 9, 1)

\* C3: for N = p * q, odd primes p <= q, whose midpoint (p + q) / 2 is
\* ceil(sqrt(N)) + k for some k from 1 to the stop value of the search
\* (itself included), calc_brute_force returns a pair of primes whose
\* product is N exactly, and does not raise.
C3_BruteForceFindsFactors ==
    (scn = "Factoring" /\ op = "calc_brute_force") =>
        \A p \in 3..n : \A k \in 1..SearchStop :
            (/\ n % p = 0
             /\ p <= n \div p
             /\ p % 2 = 1 /\ (n \div p) % 2 = 1
             /\ is_prime(p)
             /\ is_prime(n \div p)
             /\ p + (n \div p) = 2 * (LeastRootAbove(n) + k))
            => /\ out.kind = "pair"
               /\ out.p * out.q = n
               /\ is_prime(out.p) /\ is_prime(out.q)

\* C4: when neither candidate pair of calc_near6 verifies, the call ends in
\* an error and returns no pair: every pair calc_near6 returns verifies (no
\* placeholder such as (0, 0), no truncated quotient as a factor).
C4_Near6NeverReturnsUnverified ==
    (scn = "Factoring" /\ op = "calc_near6" /\ out.kind = "pair") =>
        check_sol_result(n, out.p, out.q)

\* C5: for N = p * q, p and q prime, with ceil(sqrt(24 N)) = 3 p + 2 q,
\* calc_near6 returns the two primes p and q, their product N exactly, from
\* its candidates computed with A the ceiling of sqrt(24 N).
C5_Near6ReturnsFactors ==
    (scn = "Factoring" /\ op = "calc_near6") =>
        \A p \in 2..n :
            (/\ n % p = 0
             /\ is_prime(p)
             /\ is_prime(n \div p)
             /\ LeastRootAbove(24 * n) = 3 * p + 2 * (n \div p))
            => /\ out.kind = "pair"
               /\ out.p * out.q = n
               /\ {out.p, out.q} = {p, n \div p}
               /\ out.a = LeastRootAbove(24 * n)

\* C6: the calls on one Factoring object leave its modulus as constructed,
\* and the outcome of every call (pair or error, candidates tried) is that
\* of the same call made first on a fresh object with the same N.
C6_NoStateAcrossCalls ==
    scn = "Factoring" =>
        /\ n = n0
        /\ \A i \in DOMAIN log :
               log[i].out = FreshOutcome(log[i].op, n0, round)

\* C6 on N = 10: calc_near fails, calc_brute_force exhausts its range,
\* calc_near6 then returns (2, 5)
C6_Witness ==
    /\ scn = "Factoring"
    /\ n = 10
    /\ Len(log) = 3
    /\ log[1] = Called("calc_near", Outcome("AssertionError", 0, 0, 4, 1))
    /\ log[2].op = "calc_brute_force" /\ log[2].out.kind = "ValueError"
    /\ log[3].op = "calc_near6" /\ log[3].out.kind = "pair"
    /\ out.p = 2 /\ out.q = 5

\* C7: for a # 0 and integer roots r1, r2, with b = -a (r1 + r2) and
\* c = a r1 r2, solve_quadratic returns x1 = (-b - sqrt(b^2 - 4ac)) / (2a)
\* and x2 = (-b + sqrt(b^2 - 4ac)) / (2a), whose values are r1 and r2: the
\* smaller root first for a > 0, the larger first for a < 0.
C7_QuadraticRoundTrip ==
    op = "solve_quadratic" =>
        \A r1, r2 \in (-MaxRoot)..MaxRoot :
            (/\ arg.a # 0
             /\ r1 <= r2
             /\ arg.b = -(arg.a * (r1 + r2))
             /\ arg.c = arg.a * r1 * r2)
            => IF arg.a > 0
               THEN IsValue(out.x1, r1) /\ IsValue(out.x2, r2)
               ELSE IsValue(out.x1, r2) /\ IsValue(out.x2, r1)

\* C7 on a = -1 and the roots 1 and 2
C7_Witness ==
    /\ op = "solve_quadratic"
    /\ arg = [a |-> -1, b |-> 3, c |-> -2]
    /\ IsValue(out.x1, 2)
    /\ IsValue(out.x2, 1)

\* C8: when the hexadecimal rendering of the decrypted integer lacks the
\* padding marker, decrypt reports a decryption failure: no bytes returned,
\* no exception raised.
C8_NoMarkerIsReportedFailure ==
    (op = "decrypt" /\ out.dec >= 0 /\ MarkerAbsent(hex_digits(out.dec))) =>
        out.kind = "None"

\* C9: calc_near computes exactly one candidate, at a = ceil(sqrt(N)); when
\* that pair does not verify the call raises, and returns no pair.
C9_CalcNearSingleCandidate ==
    (scn = "Factoring" /\ op = "calc_near") =>
        LET a  == LeastRootAbove(n)
            pq == calc_factors(n, a, round)
        IN  /\ out.tried = 1
            /\ out.a = a
            /\ out.kind \in {"pair", "AssertionError"}
            /\ ~check_sol_result(n, pq[1], pq[2]) => out.kind = "AssertionError"

\* C9 on N = 10: the candidate at a = 4 fails and the call raises
C9_Witness ==
    /\ scn = "Factoring"
    /\ op = "calc_near"
    /\ n = 10
    /\ out = Outcome("AssertionError", 0, 0, 4, 1)

\* C10: calc_near and calc_brute_force never both succeed on one modulus:
\* where calc_near returns a pair, calc_brute_force raises ValueError.
C10_NearAndBruteForceExclusive ==
    scn = "Factoring" =>
        \A i, j \in DOMAIN log :
            (/\ log[i].op = "calc_near"
             /\ log[i].out.kind = "pair"
             /\ log[j].op = "calc_brute_force")
            => log[j].out.kind = "ValueError"

====
